---- MODULE Spec2Model ----
(***************************************************************************)
(* The request helper of rs-infra: the two BaseFetcher implementations     *)
(* (helpers/src/network/fetcher/base_fetcher.rs and helpers/src/fetcher.rs) *)
(* and the NetworkRequest facade (helpers/src/network/network_request.rs). *)
(*                                                                         *)
(* A Rust Option is a sequence of length 0 (None) or 1 (Some).  A String   *)
(* that the code trims is a sequence of characters; other strings are TLA+ *)
(* strings.  A HeaderMap is a function from header name to the sequence of *)
(* values held under that name (HeaderMap is a multimap; the empty sequence*)
(* is an absent name).  Durations are whole seconds.                       *)
(***************************************************************************)
EXTENDS Integers, Sequences, FiniteSets, TLC

VARIABLES fetcher, facade, ctor, calls

vars == <<fetcher, facade, ctor, calls>>

---------------------------------------------------------------------------
(* Bounds of the model *)

\* longest base URL / request path, in characters
MaxLen == 2
\* seconds a call is followed on a client that has no timeout
MaxWait == 3

---------------------------------------------------------------------------
(* Option *)

None == <<>>

Some(v) == <<v>>

IsSome(o) == o # <<>>

unwrap_or(o, d) == IF o = <<>> THEN d ELSE o[1]

---------------------------------------------------------------------------
(* Program constants *)

\* const TIME_OUT: Duration = Duration::from_mins(1), in seconds
TIME_OUT == 60

CONTENT_TYPE == "content-type"

AUTHORIZATION == "authorization"

X_TRACE == "x-trace"

HeaderNames == {CONTENT_TYPE, AUTHORIZATION, X_TRACE}

Methods == {"GET", "POST", "PUT", "PATCH", "DELETE"}

\* Method::default()
DefaultMethod == "GET"

---------------------------------------------------------------------------
(* HeaderMap *)

EmptyHeaders == [k \in HeaderNames |-> <<>>]

Hdr(ct, auth, x) ==
    [k \in HeaderNames |->
        IF k = CONTENT_TYPE THEN ct ELSE IF k = AUTHORIZATION THEN auth ELSE x]

\* HeaderMap::entry(k).or_insert(v): v only where k is vacant
EntryOrInsert(h, k, v) == IF h[k] = <<>> THEN [h EXCEPT ![k] = <<v>>] ELSE h

\* HeaderMap::insert(k, v): v replaces whatever k held
Insert(h, k, v) == [h EXCEPT ![k] = <<v>>]

\* HeaderMap::append(k, v): v is added after the values k holds
AppendValue(h, k, v) == [h EXCEPT ![k] = Append(h[k], v)]

---------------------------------------------------------------------------
(* URL join *)

RECURSIVE trim_end_matches(_, _)
trim_end_matches(s, c) ==
    IF s # <<>> /\ s[Len(s)] = c
    THEN trim_end_matches(SubSeq(s, 1, Len(s) - 1), c)
    ELSE s

RECURSIVE trim_start_matches(_, _)
trim_start_matches(s, c) ==
    IF s # <<>> /\ s[1] = c
    THEN trim_start_matches(Tail(s), c)
    ELSE s

\* a plausible slip: strip_suffix / strip_prefix, which remove one slash only
StripOneJoin(base_url, path) ==
    (IF base_url # <<>> /\ base_url[Len(base_url)] = "/"
     THEN SubSeq(base_url, 1, Len(base_url) - 1) ELSE base_url)
    \o <<"/">> \o
    (IF path # <<>> /\ path[1] = "/" THEN Tail(path) ELSE path)

\* BaseFetcher::get_request_url: format!("{}/{}", base.trim_end_matches('/'),
\* path.trim_start_matches('/'))
get_request_url(base_url, path) ==
    trim_end_matches(base_url, "/") \o <<"/">> \o trim_start_matches(path, "/")

\* the same join, written inline in fetcher.rs's send
full_url(base_url, url) ==
    trim_end_matches(base_url, "/") \o <<"/">> \o trim_start_matches(url, "/")

---------------------------------------------------------------------------
(* The transport client (reqwest), as far as this code configures and uses it *)

\* ClientBuilder::default_headers(map): each name of map is inserted into the
\* builder's defaults, so a name keeps the last of its values
ClientBuilder_default_headers(map) ==
    [k \in HeaderNames |-> IF map[k] = <<>> THEN <<>> ELSE <<map[k][Len(map[k])]>>]

\* Client::builder().timeout(timeout_value).default_headers(default_headers).build()
ClientBuilder_build(timeout_value, default_headers) ==
    [timeout |-> Some(timeout_value),
     headers |-> ClientBuilder_default_headers(default_headers)]

\* Client::new(): the library's defaults, no timeout and no default header
Client_new == [timeout |-> None, headers |-> EmptyHeaders]

\* What building the client can come to: build() returns Ok ("built"); build()
\* returns Err and Client::new() returns ("fallback"); build() returns Err and
\* Client::new(), which unwraps the same build, panics ("panic").
BuildEnvs == {"built", "fallback", "panic"}

\* .build().unwrap_or_else(|_| Client::new()): None stands for the panic
build_client(timeout_value, default_headers, env) ==
    IF env = "built" THEN Some(ClientBuilder_build(timeout_value, default_headers))
    ELSE IF env = "fallback" THEN Some(Client_new)
    ELSE None

---------------------------------------------------------------------------
(* Construction *)

\* a plausible slip: the timeout option is ignored
AlwaysDefaultTimeout(timeout) == TIME_OUT

\* let timeout_value = timeout.unwrap_or(TIME_OUT)
timeout_value_of(timeout) == unwrap_or(timeout, TIME_OUT)

\* base_fetcher.rs: let default_headers = headers.unwrap_or_default()
base_fetcher_default_headers(headers) == unwrap_or(headers, EmptyHeaders)

\* fetcher.rs: unwrap_or_default(), then entry(CONTENT_TYPE).or_insert(json)
fetcher_default_headers(headers) ==
    EntryOrInsert(unwrap_or(headers, EmptyHeaders), CONTENT_TYPE, "application/json")

\* a plausible slip: insert instead of entry().or_insert()
InsertContentType(headers) ==
    Insert(unwrap_or(headers, EmptyHeaders), CONTENT_TYPE, "application/json")

\* network_request.rs: unwrap_or_default(), then entry(CONTENT_TYPE).or_insert(json)
network_request_default_headers(headers) ==
    EntryOrInsert(unwrap_or(headers, EmptyHeaders), CONTENT_TYPE, "application/json")

\* The fetcher a construction returns (None when it panics) and the locals
\* timeout_value and default_headers it computed.
NewResult(impl, options, default_headers, env) ==
    LET timeout_value == timeout_value_of(options.timeout)
        client == build_client(timeout_value, default_headers, env)
    IN  [timeout_value |-> timeout_value,
         default_headers |-> default_headers,
         fetcher |-> IF client = None THEN None
                     ELSE Some([impl |-> impl,
                                name |-> options.name,
                                base_url |-> options.base_url,
                                client |-> client[1]])]

\* BaseFetcher::new of network/fetcher/base_fetcher.rs
base_fetcher_new(options, env) ==
    NewResult("base_fetcher", options,
              base_fetcher_default_headers(options.headers), env)

\* BaseFetcher::new of fetcher.rs
fetcher_new(options, env) ==
    NewResult("fetcher", options, fetcher_default_headers(options.headers), env)

\* the BaseFetcherOptions NetworkRequest::new hands to BaseFetcher::new
network_request_fetcher_options(options) ==
    [name |-> options.name,
     base_url |-> options.base_url,
     headers |-> Some(network_request_default_headers(options.headers)),
     timeout |-> None]

CtorLog(kind, options, fetcher_options, r, env) ==
    [kind |-> kind, options |-> options, fetcher_options |-> fetcher_options,
     timeout_value |-> r.timeout_value, default_headers |-> r.default_headers,
     env |-> env]

\* BaseFetcher::new(options) of base_fetcher.rs, called directly
BaseFetcherNew(options, env) ==
    /\ ctor = None
    /\ LET r == base_fetcher_new(options, env)
       IN  /\ fetcher' = r.fetcher
           /\ ctor' = Some(CtorLog("base_fetcher", options, options, r, env))
    /\ UNCHANGED <<facade, calls>>

\* BaseFetcher::new(options) of fetcher.rs
FetcherNew(options, env) ==
    /\ ctor = None
    /\ LET r == fetcher_new(options, env)
       IN  /\ fetcher' = r.fetcher
           /\ ctor' = Some(CtorLog("fetcher", options, options, r, env))
    /\ UNCHANGED <<facade, calls>>

\* NetworkRequest::new(options): the facade owns the fetcher it builds
NetworkRequestNew(options, env) ==
    /\ ctor = None
    /\ LET fetcher_options == network_request_fetcher_options(options)
           r == base_fetcher_new(fetcher_options, env)
       IN  /\ fetcher' = r.fetcher
           /\ facade' = IF r.fetcher = None THEN None
                        ELSE Some([base_url |-> options.base_url])
           /\ ctor' = Some(CtorLog("network_request", options, fetcher_options, r, env))
    /\ UNCHANGED calls

---------------------------------------------------------------------------
(* Building and dispatching one request *)

\* Client::request(method, url): a builder with no header, body or query
Client_request(method, url) ==
    [method |-> method, url |-> url, headers |-> EmptyHeaders,
     body |-> None, query |-> None]

\* RequestBuilder::headers(map): each name of map replaces that name in the request
RequestBuilder_headers(rb, headers_data) ==
    [rb EXCEPT !.headers =
        [k \in HeaderNames |-> IF headers_data[k] = <<>> THEN @[k] ELSE headers_data[k]]]

\* a plausible slip: the token is sent bare, without the Bearer scheme
BearerWithoutScheme(rb, token) ==
    [rb EXCEPT !.headers = AppendValue(@, AUTHORIZATION, token)]

\* RequestBuilder::bearer_auth(token): appends Authorization: Bearer <token>
RequestBuilder_bearer_auth(rb, token) ==
    [rb EXCEPT !.headers = AppendValue(@, AUTHORIZATION, "Bearer " \o token)]

\* RequestBuilder::json(value): the body, and Content-Type: application/json
\* unless the request already names a Content-Type
RequestBuilder_json(rb, value) ==
    [rb EXCEPT !.headers = EntryOrInsert(@, CONTENT_TYPE, "application/json"),
               !.body = Some(value)]

\* RequestBuilder::query(value): the query parameters of the URL
RequestBuilder_query(rb, value) == [rb EXCEPT !.query = Some(value)]

\* a plausible slip: the merge the wrong way round, a default beats the request
DefaultsWin(client, rb) ==
    [rb EXCEPT !.headers =
        [k \in HeaderNames |-> IF client.headers[k] = <<>> THEN @[k] ELSE client.headers[k]]]

\* RequestBuilder::send(): the client adds each of its default headers whose
\* name the request does not carry, and dispatches
RequestBuilder_send(client, rb) ==
    [rb EXCEPT !.headers =
        [k \in HeaderNames |-> IF @[k] = <<>> THEN client.headers[k] ELSE @[k]]]

\* the builder chain shared by both send implementations
BuildRequest(client, url, options) ==
    LET rb0 == Client_request(options.method, url)
        rb1 == IF IsSome(options.headers)
               THEN RequestBuilder_headers(rb0, options.headers[1]) ELSE rb0
        rb2 == IF IsSome(options.bearer_auth)
               THEN RequestBuilder_bearer_auth(rb1, options.bearer_auth[1]) ELSE rb1
        rb3 == IF IsSome(options.body)
               THEN RequestBuilder_json(rb2, options.body[1]) ELSE rb2
        rb4 == IF IsSome(options.query)
               THEN RequestBuilder_query(rb3, options.query[1]) ELSE rb3
    IN  RequestBuilder_send(client, rb4)

\* BaseFetcher::send of base_fetcher.rs, up to the dispatch: the request sent
base_fetcher_send(f, options) ==
    BuildRequest(f.client, get_request_url(f.base_url, options.url), options)

\* BaseFetcher::send of fetcher.rs, up to the dispatch
fetcher_send(f, options) ==
    BuildRequest(f.client, full_url(f.base_url, options.url), options)

\* self.send(opts): the implementation of the fetcher at hand
send(f, options) ==
    IF f.impl = "fetcher" THEN fetcher_send(f, options)
    ELSE base_fetcher_send(f, options)

---------------------------------------------------------------------------
(* Verb sugar: RequestOptions { method: Method::X, ..options } *)

\* a plausible slip: the struct update is written the wrong way round and the
\* caller's method survives
KeepCallerMethod(options) == options

get(options) == [options EXCEPT !.method = "GET"]

post(options) == [options EXCEPT !.method = "POST"]

put(options) == [options EXCEPT !.method = "PUT"]

patch(options) == [options EXCEPT !.method = "PATCH"]

delete(options) == [options EXCEPT !.method = "DELETE"]

---------------------------------------------------------------------------
(* Calls in flight and what they return *)

Pending == [tag |-> "Pending", status |-> 0, kind |-> ""]

\* Ok(Response) with its status code
Response(status) == [tag |-> "Ok", status |-> status, kind |-> ""]

\* Err(reqwest::Error) of some kind
Failure(kind) == [tag |-> "Err", status |-> 0, kind |-> kind]

\* a plausible slip: Response::error_for_status() before returning
ErrorForStatus(outcome) ==
    IF outcome.tag = "Ok" /\ outcome.status >= 400 THEN Failure("status") ELSE outcome

\* a plausible slip: map_err into an application error, as the commented-out
\* NetworkRequest::send does
MapErr(outcome) ==
    IF outcome.tag = "Err" THEN Failure("Network request failed") ELSE outcome

\* send's tail expression rb.send().await: the transport's outcome is the result
send_returns(outcome) == outcome

Call(c) == calls[c][1]

InFlight(c) == calls[c] # None /\ Call(c).result.tag = "Pending"

Returned(c) == calls[c] # None /\ Call(c).result.tag # "Pending"

\* the caller's task c awaits no call: it may issue one
CanCall(c) == fetcher # None /\ ~InFlight(c)

\* the call record of op(options): sent_options is what reaches send, whose
\* request goes to the transport once
Dispatched(op, options, sent_options) ==
    Some([op |-> op,
          options |-> options,
          request |-> send(fetcher[1], sent_options),
          attempts |-> 1,
          elapsed |-> 0,
          outcome |-> Pending,
          result |-> Pending])

Send(c, options) ==
    /\ CanCall(c)
    /\ calls' = [calls EXCEPT ![c] = Dispatched("send", options, options)]
    /\ UNCHANGED <<fetcher, facade, ctor>>

Get(c, options) ==
    /\ CanCall(c)
    /\ calls' = [calls EXCEPT ![c] = Dispatched("get", options, get(options))]
    /\ UNCHANGED <<fetcher, facade, ctor>>

Post(c, options) ==
    /\ CanCall(c)
    /\ calls' = [calls EXCEPT ![c] = Dispatched("post", options, post(options))]
    /\ UNCHANGED <<fetcher, facade, ctor>>

Put(c, options) ==
    /\ CanCall(c)
    /\ calls' = [calls EXCEPT ![c] = Dispatched("put", options, put(options))]
    /\ UNCHANGED <<fetcher, facade, ctor>>

Patch(c, options) ==
    /\ CanCall(c)
    /\ calls' = [calls EXCEPT ![c] = Dispatched("patch", options, patch(options))]
    /\ UNCHANGED <<fetcher, facade, ctor>>

Delete(c, options) ==
    /\ CanCall(c)
    /\ calls' = [calls EXCEPT ![c] = Dispatched("delete", options, delete(options))]
    /\ UNCHANGED <<fetcher, facade, ctor>>

\* the transport's outcome reaches the awaiting send, which returns
Complete(c, outcome) ==
    calls' = [calls EXCEPT ![c] =
                 Some([Call(c) EXCEPT !.outcome = outcome,
                                      !.result = send_returns(outcome)])]

\* the server answers with some status
TransportRespond(c, status) ==
    /\ InFlight(c)
    /\ Complete(c, Response(status))
    /\ UNCHANGED <<fetcher, facade, ctor>>

\* the transport fails: connect, TLS, reset
TransportFail(c, kind) ==
    /\ InFlight(c)
    /\ Complete(c, Failure(kind))
    /\ UNCHANGED <<fetcher, facade, ctor>>

\* the client's timeout, when it has one, ends the wait
TransportTimeout(c) ==
    /\ InFlight(c)
    /\ IsSome(fetcher[1].client.timeout)
    /\ Call(c).elapsed >= fetcher[1].client.timeout[1]
    /\ Complete(c, Failure("timeout"))
    /\ UNCHANGED <<fetcher, facade, ctor>>

\* how long the model follows a call's wait: to the client's timeout, or MaxWait
WaitLimit == unwrap_or(fetcher[1].client.timeout, MaxWait)

\* a second passes for every call in flight; the timeout fires before time
\* moves past it
Tick ==
    /\ \E c \in DOMAIN calls : InFlight(c)
    /\ \A c \in DOMAIN calls : InFlight(c) => Call(c).elapsed < WaitLimit
    /\ calls' = [c \in DOMAIN calls |->
                   IF InFlight(c)
                   THEN Some([Call(c) EXCEPT !.elapsed = @ + 1])
                   ELSE calls[c]]
    /\ UNCHANGED <<fetcher, facade, ctor>>

---------------------------------------------------------------------------
(* Inputs *)

\* the tasks that call the fetcher concurrently, each one call at a time
Callers == {"t1", "t2"}

Url0 == <<"h">>

Path0 == <<"/", "p">>

DefaultHeaderOptions ==
    {None,
     Some(Hdr(<<>>, <<>>, <<"trace-d">>)),
     Some(Hdr(<<"text/plain">>, <<>>, <<"trace-d">>)),
     Some(Hdr(<<>>, <<"Basic d">>, <<>>))}

OverlayOptions ==
    {None,
     Some(Hdr(<<"text/html">>, <<>>, <<>>)),
     Some(Hdr(<<>>, <<"Basic o">>, <<"trace-o">>))}

RequestOptions(url, method, headers, bearer_auth, body, query) ==
    [url |-> url, method |-> method, headers |-> headers,
     bearer_auth |-> bearer_auth, body |-> body, query |-> query]

\* RequestOptions { url, ..Default::default() }
PlainOptions == RequestOptions(Path0, DefaultMethod, None, None, None, None)

---------------------------------------------------------------------------
(* Spec: construction and headers, time abstracted away (a timeout is one of *)
(* the failures the transport may report)                                   *)

SpecBaseFetcherOptions ==
    {[name |-> "RS_INFRA", base_url |-> Url0, headers |-> h, timeout |-> None] :
        h \in DefaultHeaderOptions}

SpecFetcherOptions ==
    {[name |-> Some("RS_INFRA"), base_url |-> Url0, headers |-> h, timeout |-> None] :
        h \in DefaultHeaderOptions}

SpecNetworkRequestOptions ==
    {[name |-> "RS_INFRA", base_url |-> Url0, headers |-> h] :
        h \in DefaultHeaderOptions}

SpecSendOptions ==
    {RequestOptions(Path0, DefaultMethod, h, t, b, None) :
        h \in OverlayOptions, t \in {None, Some("tok123")}, b \in {None, Some("{a:1}")}}

SpecVerbOptions == {PlainOptions}

SpecStatuses == {200}

SpecKinds == {"connect"}

Init ==
    /\ fetcher = None
    /\ facade = None
    /\ ctor = None
    /\ calls = [c \in Callers |-> None]

Next ==
    \/ \E o \in SpecBaseFetcherOptions, env \in BuildEnvs : BaseFetcherNew(o, env)
    \/ \E o \in SpecFetcherOptions, env \in BuildEnvs : FetcherNew(o, env)
    \/ \E o \in SpecNetworkRequestOptions, env \in BuildEnvs : NetworkRequestNew(o, env)
    \/ \E c \in Callers, o \in SpecSendOptions : Send(c, o)
    \/ \E c \in Callers, o \in SpecVerbOptions : Get(c, o)
    \/ \E c \in Callers, o \in SpecVerbOptions : Post(c, o)
    \/ \E c \in Callers, o \in SpecVerbOptions : Put(c, o)
    \/ \E c \in Callers, o \in SpecVerbOptions : Patch(c, o)
    \/ \E c \in Callers, o \in SpecVerbOptions : Delete(c, o)
    \/ \E c \in Callers, status \in SpecStatuses : TransportRespond(c, status)
    \/ \E c \in Callers, kind \in SpecKinds : TransportFail(c, kind)

Spec == Init /\ [][Next]_vars

---------------------------------------------------------------------------
(* Claims checked under Spec *)

\* what a call's options say
Overlay(c) == unwrap_or(Call(c).options.headers, EmptyHeaders)

HasBearer(c) == IsSome(Call(c).options.bearer_auth)

HasBody(c) == IsSome(Call(c).options.body)

\* the headers of the request call c put on the wire
Sent(c) == Call(c).request.headers

\* the default headers construction computed
ConstructionDefaults == ctor[1].default_headers

\* C3 as stated: in the headers every call sends, a name of the call's overlay
\* carries the overlay's values first, and a construction-time default header
\* whose name the overlay lacks is sent as it is.
C3_SentIsDefaultsUnderOverlay ==
    \A c \in DOMAIN calls :
        calls[c] # None =>
            \A k \in HeaderNames :
                /\ Overlay(c)[k] # <<>> =>
                       /\ Len(Sent(c)[k]) >= Len(Overlay(c)[k])
                       /\ SubSeq(Sent(c)[k], 1, Len(Overlay(c)[k])) = Overlay(c)[k]
                /\ (Overlay(c)[k] = <<>> /\ ConstructionDefaults[k] # <<>>) =>
                       Sent(c)[k] = ConstructionDefaults[k]

\* C3 amended: for every call, in flight or returned, whatever the other calls
\* carry, a header name of the overlay is sent with the overlay's values (plus,
\* for Authorization, the bearer value when bearerAuth is given); a name absent
\* from the overlay is sent as Authorization: Bearer <t> when it is
\* Authorization and bearerAuth is given, as Content-Type: application/json
\* when it is Content-Type and a body is given, and otherwise with the
\* construction-time default, or not at all when construction fell back to the
\* library-default client.
C3_HeaderPrecedence ==
    \A c \in DOMAIN calls :
        calls[c] # None =>
            \A k \in HeaderNames :
                LET bearer == IF k = AUTHORIZATION /\ HasBearer(c)
                              THEN <<"Bearer " \o Call(c).options.bearer_auth[1]>>
                              ELSE <<>>
                    own == Overlay(c)[k] \o bearer
                    default == IF ctor[1].env = "built"
                               THEN ConstructionDefaults[k] ELSE <<>>
                IN  Sent(c)[k] =
                        IF own # <<>> THEN own
                        ELSE IF k = CONTENT_TYPE /\ HasBody(c)
                        THEN <<"application/json">>
                        ELSE default

\* C3 witness: one call overrides the default Content-Type with its overlay and
\* still sends the default x-trace, while the other call, issued without an
\* overlay, sends the default Content-Type.
C3_Witness ==
    /\ ctor # None
    /\ ctor[1].env = "built"
    /\ ConstructionDefaults[CONTENT_TYPE] = <<"text/plain">>
    /\ calls["t1"] # None
    /\ Overlay("t1")[CONTENT_TYPE] = <<"text/html">>
    /\ Sent("t1")[CONTENT_TYPE] = <<"text/html">>
    /\ Sent("t1")[X_TRACE] = <<"trace-d">>
    /\ Returned("t1")
    /\ calls["t2"] # None
    /\ Call("t2").options.headers = None
    /\ Sent("t2")[CONTENT_TYPE] = <<"text/plain">>

\* C4: the headers the facade hands to its fetcher are the caller's plus
\* Content-Type: application/json when the caller named no Content-Type, and
\* exactly the caller's when it did.
C4_FacadeContentType ==
    (ctor # None /\ ctor[1].kind = "network_request") =>
        LET h == unwrap_or(ctor[1].options.headers, EmptyHeaders)
            handed == ctor[1].fetcher_options.headers
        IN  /\ IsSome(handed)
            /\ h[CONTENT_TYPE] = <<>> =>
                   /\ handed[1][CONTENT_TYPE] = <<"application/json">>
                   /\ \A k \in HeaderNames \ {CONTENT_TYPE} : handed[1][k] = h[k]
            /\ h[CONTENT_TYPE] # <<>> => handed[1] = h

\* C4 witness: a facade built from headers that name Content-Type: text/plain
C4_Witness ==
    /\ ctor # None
    /\ ctor[1].kind = "network_request"
    /\ IsSome(ctor[1].options.headers)
    /\ ctor[1].options.headers[1][CONTENT_TYPE] = <<"text/plain">>
    /\ ctor[1].fetcher_options.headers[1][CONTENT_TYPE] = <<"text/plain">>

\* C5: a call with bearerAuth = t sends Authorization: Bearer t whatever the
\* defaults and the overlay hold; a call without bearerAuth sends only the
\* Authorization of its overlay or, failing that, of the client's defaults.
C5_BearerAuth ==
    \A c \in DOMAIN calls :
        calls[c] # None =>
            /\ HasBearer(c) =>
                   \E i \in 1..Len(Sent(c)[AUTHORIZATION]) :
                       Sent(c)[AUTHORIZATION][i] =
                           "Bearer " \o Call(c).options.bearer_auth[1]
            /\ ~HasBearer(c) =>
                   Sent(c)[AUTHORIZATION] =
                       IF Overlay(c)[AUTHORIZATION] # <<>>
                       THEN Overlay(c)[AUTHORIZATION]
                       ELSE fetcher[1].client.headers[AUTHORIZATION]

\* C5 witness: bearerAuth tok123 on a fetcher whose defaults name another
\* Authorization, and on a call whose overlay names another one
C5_Witness ==
    /\ calls["t1"] # None /\ calls["t2"] # None
    /\ Call("t1").options.bearer_auth = Some("tok123")
    /\ fetcher[1].client.headers[AUTHORIZATION] = <<"Basic d">>
    /\ Call("t1").options.headers = None
    /\ Sent("t1")[AUTHORIZATION] = <<"Bearer tok123">>
    /\ Call("t2").options.bearer_auth = Some("tok123")
    /\ Overlay("t2")[AUTHORIZATION] = <<"Basic o">>
    /\ Sent("t2")[AUTHORIZATION] = <<"Basic o", "Bearer tok123">>

\* C10 as stated: a fetcher's default headers are exactly the headers of its
\* options, empty when there are none, whichever BaseFetcher::new built it.
C10_FetcherDefaultsAsGiven ==
    (ctor # None /\ ctor[1].kind \in {"base_fetcher", "fetcher"}) =>
        ConstructionDefaults = unwrap_or(ctor[1].options.headers, EmptyHeaders)

---------------------------------------------------------------------------
(* SpecUrl: every base URL and request path of up to MaxLen characters *)

OneCaller == {"t1"}

Chars == {"a", "/"}

UrlStrings == UNION {[1..n -> Chars] : n \in 0..MaxLen}

UrlNames == {"RS_INFRA", ""}

UrlBaseFetcherOptions ==
    {[name |-> n, base_url |-> b, headers |-> None, timeout |-> None] :
        n \in UrlNames, b \in UrlStrings}

UrlFetcherOptions ==
    {[name |-> n, base_url |-> b, headers |-> None, timeout |-> None] :
        n \in {None, Some("RS_INFRA")}, b \in UrlStrings}

UrlNetworkRequestOptions ==
    {[name |-> n, base_url |-> b, headers |-> None] : n \in UrlNames, b \in UrlStrings}

UrlRequestOptions ==
    {RequestOptions(p, DefaultMethod, None, None, None, None) : p \in UrlStrings}

InitOne ==
    /\ fetcher = None
    /\ facade = None
    /\ ctor = None
    /\ calls = [c \in OneCaller |-> None]

NextUrl ==
    \/ \E o \in UrlBaseFetcherOptions, env \in BuildEnvs : BaseFetcherNew(o, env)
    \/ \E o \in UrlFetcherOptions, env \in BuildEnvs : FetcherNew(o, env)
    \/ \E o \in UrlNetworkRequestOptions, env \in BuildEnvs : NetworkRequestNew(o, env)
    \/ \E c \in OneCaller, o \in UrlRequestOptions : Send(c, o)
    \/ \E c \in OneCaller, o \in UrlRequestOptions : Get(c, o)
    \/ \E c \in OneCaller, o \in UrlRequestOptions : Post(c, o)
    \/ \E c \in OneCaller, o \in UrlRequestOptions : Put(c, o)
    \/ \E c \in OneCaller, o \in UrlRequestOptions : Patch(c, o)
    \/ \E c \in OneCaller, o \in UrlRequestOptions : Delete(c, o)
    \/ \E c \in OneCaller, status \in SpecStatuses : TransportRespond(c, status)
    \/ \E c \in OneCaller, kind \in SpecKinds : TransportFail(c, kind)

SpecUrl == InitOne /\ [][NextUrl]_vars

\* u is b without its trailing slashes, one slash, p without its leading slashes
IsJoin(u, b, p) ==
    \E i \in 0..Len(b), j \in 0..Len(p) :
        /\ \A n \in (i + 1)..Len(b) : b[n] = "/"
        /\ i > 0 => b[i] # "/"
        /\ \A n \in 1..j : p[n] = "/"
        /\ j < Len(p) => p[j + 1] # "/"
        /\ u = SubSeq(b, 1, i) \o <<"/">> \o SubSeq(p, j + 1, Len(p))

\* C1: the URL of every dispatched request is the base URL without its trailing
\* slashes, one '/', and the request path without its leading slashes; one more
\* slash at the end of the base URL or at the start of the path gives the same URL.
C1_UrlJoin ==
    \A c \in DOMAIN calls :
        calls[c] # None =>
            LET b == fetcher[1].base_url
                p == Call(c).options.url
                u == Call(c).request.url
                more == [Call(c).options EXCEPT !.url = <<"/">> \o p]
            IN  /\ IsJoin(u, b, p)
                /\ send([fetcher[1] EXCEPT !.base_url = b \o <<"/">>], more).url = u

\* C1 witness: base "a/" and path "/a" were joined, with the canonical fetcher,
\* into "a/a"
C1_Witness ==
    /\ calls["t1"] # None
    /\ fetcher[1].impl = "base_fetcher"
    /\ fetcher[1].base_url = <<"a", "/">>
    /\ Call("t1").options.url = <<"/", "a">>
    /\ Call("t1").request.url = <<"a", "/", "a">>

\* C9 as stated: every construction returns a fetcher that holds the name and
\* base URL given, with the library-default client when the configured client
\* could not be built.
C9_ConstructionReturnsFetcher ==
    ctor # None =>
        /\ fetcher # None
        /\ fetcher[1].name = ctor[1].options.name
        /\ fetcher[1].base_url = ctor[1].options.base_url
        /\ ctor[1].env # "built" => fetcher[1].client = Client_new

---------------------------------------------------------------------------
(* SpecVerb: every verb method on options that carry every method *)

FullOverlay == Some(Hdr(<<"text/html">>, <<>>, <<"trace-o">>))

VerbRequestOptions ==
    {RequestOptions(Path0, m, None, None, None, None) : m \in Methods}
    \cup {RequestOptions(Path0, m, FullOverlay, Some("tok123"), Some("{a:1}"), Some("q=1")) :
            m \in Methods}

VerbBaseFetcherOptions ==
    {[name |-> "RS_INFRA", base_url |-> Url0, headers |-> None, timeout |-> None]}

VerbFetcherOptions ==
    {[name |-> Some("RS_INFRA"), base_url |-> Url0, headers |-> None, timeout |-> None]}

VerbNetworkRequestOptions ==
    {[name |-> "RS_INFRA", base_url |-> Url0, headers |-> None]}

NextVerb ==
    \/ \E o \in VerbBaseFetcherOptions, env \in BuildEnvs : BaseFetcherNew(o, env)
    \/ \E o \in VerbFetcherOptions, env \in BuildEnvs : FetcherNew(o, env)
    \/ \E o \in VerbNetworkRequestOptions, env \in BuildEnvs : NetworkRequestNew(o, env)
    \/ \E c \in OneCaller, o \in VerbRequestOptions : Send(c, o)
    \/ \E c \in OneCaller, o \in VerbRequestOptions : Get(c, o)
    \/ \E c \in OneCaller, o \in VerbRequestOptions : Post(c, o)
    \/ \E c \in OneCaller, o \in VerbRequestOptions : Put(c, o)
    \/ \E c \in OneCaller, o \in VerbRequestOptions : Patch(c, o)
    \/ \E c \in OneCaller, o \in VerbRequestOptions : Delete(c, o)
    \/ \E c \in OneCaller, status \in SpecStatuses : TransportRespond(c, status)
    \/ \E c \in OneCaller, kind \in SpecKinds : TransportFail(c, kind)

SpecVerb == InitOne /\ [][NextVerb]_vars

VerbOf(op) ==
    CASE op = "get" -> "GET"
      [] op = "post" -> "POST"
      [] op = "put" -> "PUT"
      [] op = "patch" -> "PATCH"
      [] op = "delete" -> "DELETE"

\* C2: the request a verb method dispatches for options s is the request Send
\* dispatches for s with the method replaced by the verb: the verb as method,
\* and the URL, headers, body and query of s; and the call returns what the
\* transport delivered for that request.
C2_VerbSugar ==
    \A c \in DOMAIN calls :
        (calls[c] # None /\ Call(c).op # "send") =>
            LET s == Call(c).options
                forced == [s EXCEPT !.method = VerbOf(Call(c).op)]
            IN  /\ Call(c).request = send(fetcher[1], forced)
                /\ Call(c).request.method = VerbOf(Call(c).op)
                /\ Call(c).request.body = s.body
                /\ Call(c).request.query = s.query
                /\ Call(c).result = Call(c).outcome

\* C2 witness: patch on options that say GET and carry an overlay, a token, a
\* body and a query has returned
C2_Witness ==
    /\ Returned("t1")
    /\ Call("t1").op = "patch"
    /\ Call("t1").options.method = "GET"
    /\ Call("t1").options.headers = FullOverlay
    /\ Call("t1").request.method = "PATCH"
    /\ Call("t1").request.query = Some("q=1")
    /\ Call("t1").request.headers[AUTHORIZATION] = <<"Bearer tok123">>

---------------------------------------------------------------------------
(* SpecTime: the clock runs; responses of every class, failures, timeouts *)

TimeoutOptions == {None, Some(2)}

TimeBaseFetcherOptions ==
    {[name |-> "RS_INFRA", base_url |-> Url0, headers |-> None, timeout |-> t] :
        t \in TimeoutOptions}

TimeFetcherOptions ==
    {[name |-> Some("RS_INFRA"), base_url |-> Url0, headers |-> None, timeout |-> t] :
        t \in TimeoutOptions}

TimeRequestOptions == {PlainOptions}

TimeStatuses == {200, 404, 500}

TimeKinds == {"connect", "reset"}

NextTime ==
    \/ \E o \in TimeBaseFetcherOptions, env \in BuildEnvs : BaseFetcherNew(o, env)
    \/ \E o \in TimeFetcherOptions, env \in BuildEnvs : FetcherNew(o, env)
    \/ \E o \in VerbNetworkRequestOptions, env \in BuildEnvs : NetworkRequestNew(o, env)
    \/ \E c \in OneCaller, o \in TimeRequestOptions : Send(c, o)
    \/ \E c \in OneCaller, o \in TimeRequestOptions : Get(c, o)
    \/ \E c \in OneCaller, o \in TimeRequestOptions : Post(c, o)
    \/ \E c \in OneCaller, o \in TimeRequestOptions : Put(c, o)
    \/ \E c \in OneCaller, o \in TimeRequestOptions : Patch(c, o)
    \/ \E c \in OneCaller, o \in TimeRequestOptions : Delete(c, o)
    \/ \E c \in OneCaller, status \in TimeStatuses : TransportRespond(c, status)
    \/ \E c \in OneCaller, kind \in TimeKinds : TransportFail(c, kind)
    \/ \E c \in OneCaller : TransportTimeout(c)
    \/ Tick

\* time passes, and the client's timer fires when its time has come
SpecTime ==
    /\ InitOne
    /\ [][NextTime]_vars
    /\ WF_vars(Tick)
    /\ WF_vars(\E c \in OneCaller : TransportTimeout(c))

C7_NoRetryNoWrap ==
    /\ [](\A c \in DOMAIN calls :
            calls[c] # None =>
                /\ Call(c).attempts = 1
                /\ Call(c).outcome.tag = "Err" =>
                       (Returned(c) /\ Call(c).result = Call(c).outcome))
    /\ [][fetcher # None => fetcher' = fetcher]_vars

\* C7 witness: a call that timed out returned the timeout failure
C7_Witness ==
    /\ Returned("t1")
    /\ Call("t1").outcome = Failure("timeout")
    /\ Call("t1").result = Failure("timeout")
    /\ Call("t1").attempts = 1

\* the timeout the options of the construction ask for: 60 seconds by default
ConfiguredTimeout ==
    IF IsSome(ctor[1].fetcher_options.timeout)
    THEN ctor[1].fetcher_options.timeout[1]
    ELSE 60

\* C8 as stated: on every fetcher, however it was constructed, no call waits
\* past the timeout configured at construction.
C8_EveryFetcherTimeout ==
    \A c \in DOMAIN calls :
        calls[c] # None => Call(c).elapsed <= ConfiguredTimeout

\* C8 amended: on a fetcher whose client was built with the configured timeout
\* (construction did not fall back to the library-default client), no call
\* waits past that timeout, 60 seconds when none was given, and every call
\* returns.
C8_BuiltClientTimeout ==
    /\ [](\A c \in DOMAIN calls :
            (calls[c] # None /\ ctor[1].env = "built") =>
                Call(c).elapsed <= ConfiguredTimeout)
    /\ \A c \in OneCaller :
         (InFlight(c) /\ ctor[1].env = "built") ~> Returned(c)

\* C8 witness: a call on a fetcher built without a timeout option waited the
\* whole 60 seconds and returned the timeout failure
C8_Witness ==
    /\ Returned("t1")
    /\ ctor[1].env = "built"
    /\ ctor[1].fetcher_options.timeout = None
    /\ Call("t1").elapsed = 60
    /\ Call("t1").result = Failure("timeout")

====
